---- MODULE Spec2Model ----
(***************************************************************************)
(* EarlyAllocator (arceos/modules/bump_allocator/src/lib.rs): a double-    *)
(* ended bump allocator.  Bytes are handed out upward from start, pages    *)
(* downward from end.  All address arithmetic is usize arithmetic: with    *)
(* overflow checks (debug profile) an overflowing +, -, * or an oversized  *)
(* shift panics, without them (release profile) it wraps modulo 2^w.       *)
(***************************************************************************)
EXTENDS Integers, Naturals, Sequences, FiniteSets, TLC

\* ---------------------------------------------------------------- bounds
\* width of usize in the model (the real targets have 32 or 64 bits):
\* the address space holds 2^WordBits / PAGE_SIZE pages
WordBits == 15
\* cap on alloc_count, so that the byte cursor takes finitely many values
MaxAllocs == 2

\* ------------------------------------------------------------- constants
\* const generic parameter PAGE_SIZE, default value
PAGE_SIZE == 4096
\* log2(PAGE_SIZE)
PAGE_SHIFT == 12

\* ------------------------------------------------------ usize arithmetic
RECURSIVE Pow2(_)
Pow2(n) == IF n = 0 THEN 1 ELSE 2 * Pow2(n - 1)

Modulus == Pow2(WordBits)
MaxWord == Modulus - 1

\* a mathematical integer reduced to a usize (two's complement wrap)
Wrap(x) == x % Modulus

\* TRUE iff the mathematical result is not a usize
Overflows(x) == x < 0 \/ x > MaxWord

RECURSIVE BitAndN(_, _, _)
BitAndN(a, b, n) ==
    IF n = 0 THEN 0
    ELSE (IF a % 2 = 1 /\ b % 2 = 1 THEN 1 ELSE 0)
         + 2 * BitAndN(a \div 2, b \div 2, n - 1)

\* the & operator on usize
BitAnd(a, b) == BitAndN(a, b, WordBits)

\* the ! operator on usize
BitNot(a) == MaxWord - a

\* the << operator on usize without overflow checks: the shift amount is
\* masked to the word width and the bits shifted out are lost
Shl(a, s) == Wrap(a * Pow2(s % WordBits))

\* -------------------------------------------------------------- inputs
\* regions a caller hands to init: all lie inside the address space
HighStart == Modulus - 4 * PAGE_SIZE
Regions == { <<0, 4 * PAGE_SIZE>>,
             <<2 * PAGE_SIZE, 4 * PAGE_SIZE>>,
             <<HighStart, 3 * PAGE_SIZE>> }

\* largest request size used: a legal Layout size (below isize::MAX)
BigSize == Pow2(WordBits - 1) - PAGE_SIZE

\* Layouts <<size, align>>: align is a power of two (Layout's invariant)
Layouts == { <<0, 1>>, <<2048, 2048>>, <<PAGE_SIZE, PAGE_SIZE>>, <<BigSize, 8>> }

\* page counts: none, some that fit, one larger than any region, and one
\* whose byte size is not a usize
WordPages == Pow2(WordBits - PAGE_SHIFT)
\* align_pow2 values: small ones, one shifting PAGE_SIZE out of the word,
\* and one not smaller than the word width
LostPow == WordBits - PAGE_SHIFT
PageReqs == { <<0, 0>>, <<1, 0>>, <<1, 1>>, <<3, 0>>, <<7, 0>>,
              <<WordPages, 0>>, <<1, LostPow>>, <<1, WordBits>> }

\* ---------------------------------------------------------------- state
VARIABLES
    start,            \* EarlyAllocator.start
    end,              \* EarlyAllocator.end
    byte_pos,         \* EarlyAllocator.byte_pos
    page_pos,         \* EarlyAllocator.page_pos
    alloc_count,      \* EarlyAllocator.alloc_count
    overflow_checks,  \* build profile: TRUE = arithmetic overflow panics
    panicked,         \* a panic has stopped the kernel
    initialized,      \* init has been called
    last,             \* the last call: operation, arguments, result, fields before
    rt,               \* caller-side tally of the current alloc/dealloc round
    ex,               \* caller-side record of an exhaustion and its recovery
    blocks,           \* byte blocks a keeping caller holds: <<address, size>>
    runs              \* page runs a keeping caller was given: <<address, bytes>>

vars == <<start, end, byte_pos, page_pos, alloc_count,
          overflow_checks, panicked, initialized, last, rt, ex,
          blocks, runs>>

\* what a caller who keeps its blocks records
held == <<blocks, runs>>

fields == <<start, end, byte_pos, page_pos, alloc_count>>

\* the five fields as a record
Fields == [start |-> start, end |-> end, byte_pos |-> byte_pos,
           page_pos |-> page_pos, alloc_count |-> alloc_count]

\* results
Ok(v) == [kind |-> "Ok", val |-> v]
Err(e) == [kind |-> e, val |-> 0]
Unit == [kind |-> "Unit", val |-> 0]
Panic == [kind |-> "Panic", val |-> 0]

Call(op, a, b, r) == [op |-> op, a |-> a, b |-> b, res |-> r, pre |-> Fields]

\* the round tally: n allocs returned Ok and d deallocs were made since
\* alloc_count was last 0; ok is FALSE once the calls no longer have the
\* shape "allocs, then deallocs"; pos is byte_pos as the last alloc left it
RtIdle == [n |-> 0, d |-> 0, ok |-> TRUE, pos |-> 0]
RtBroken == [n |-> 0, d |-> 0, ok |-> FALSE, pos |-> 0]

\* the exhaustion record: phase is "full" while the gap is closed with byte
\* allocations counted and page_pos above start, "drained" once deallocs
\* have brought alloc_count from there to 0, "retried" after the alloc that
\* follows, "open" otherwise; pp is page_pos as the exhaustion found it
ExOpen == [phase |-> "open", pp |-> 0]

\* the exhaustion record after a call, from the fields the call left
ex_next ==
    LET full == /\ initialized'
                /\ byte_pos' = page_pos'
                /\ alloc_count' > 0
                /\ page_pos' > start'
        fresh == IF full THEN [phase |-> "full", pp |-> page_pos']
                 ELSE ExOpen
    IN  IF last'.op = "init" THEN ExOpen
        ELSE IF ex.phase = "full" /\ last'.op = "dealloc" /\ alloc_count' = 0
        THEN [phase |-> "drained", pp |-> ex.pp]
        ELSE IF ex.phase = "drained"
        THEN IF last'.op = "alloc"
             THEN [phase |-> "retried", pp |-> ex.pp]
             ELSE ex
        ELSE fresh

\* EarlyAllocator::new
Init ==
    /\ start = 0
    /\ end = 0
    /\ byte_pos = 0
    /\ page_pos = 0
    /\ alloc_count = 0
    /\ overflow_checks \in BOOLEAN
    /\ panicked = FALSE
    /\ initialized = FALSE
    /\ last = [op |-> "new", a |-> 0, b |-> 0, res |-> Unit,
               pre |-> [start |-> 0, end |-> 0, byte_pos |-> 0,
                        page_pos |-> 0, alloc_count |-> 0]]
    /\ rt = RtIdle
    /\ ex = ExOpen
    /\ blocks = <<>>
    /\ runs = {}

\* init, line 51: start + size, a usize addition
init_overflows(s, size) == Overflows(s + size)

\* variant of init_end: the size taken for the end address
init_end_size_only(s, size) == Wrap(size)

init_end(s, size) == Wrap(s + size)

\* BaseAllocator::init

init(s, size) ==
    /\ ~panicked
    /\ IF overflow_checks /\ init_overflows(s, size)
       THEN /\ panicked' = TRUE
            /\ start' = s
            /\ last' = Call("init", s, size, Panic)
            /\ UNCHANGED <<end, byte_pos, page_pos, alloc_count, rt, initialized>>
       ELSE /\ start' = s
            /\ initialized' = TRUE
            /\ end' = init_end(s, size)
            /\ byte_pos' = s
            /\ page_pos' = init_end(s, size)
            /\ alloc_count' = 0
            /\ last' = Call("init", s, size, Unit)
            /\ rt' = RtIdle
            /\ UNCHANGED panicked
    /\ UNCHANGED overflow_checks
    /\ ex' = ex_next

\* variant of add_memory: a region that begins at end is appended
add_memory_appends(s, size) ==
    /\ ~panicked
    /\ IF s = end
       THEN /\ end' = Wrap(end + size)
            /\ last' = Call("add_memory", s, size, Unit)
            /\ UNCHANGED <<start, byte_pos, page_pos, alloc_count>>
       ELSE /\ last' = Call("add_memory", s, size, Err("NoMemory"))
            /\ UNCHANGED fields
    /\ UNCHANGED <<overflow_checks, panicked, initialized, rt>>
    /\ ex' = ex_next

\* BaseAllocator::add_memory
add_memory(s, size) ==
    /\ ~panicked
    /\ last' = Call("add_memory", s, size, Err("NoMemory"))
    /\ UNCHANGED <<fields, overflow_checks, panicked, initialized, rt>>
    /\ ex' = ex_next

\* variant of alloc_invalid: no size is rejected
alloc_invalid_never(size) == FALSE

\* alloc, lines 70-72: the zero-size check
alloc_invalid(size) == size = 0

\* alloc, line 75: (self.byte_pos + align - 1) & !(align - 1)
alloc_aligned_pos(bp, align) ==
    BitAnd(Wrap(bp + align - 1), BitNot(Wrap(align - 1)))

\* alloc, line 76: aligned_pos + size
alloc_new_pos(bp, size, align) == Wrap(alloc_aligned_pos(bp, align) + size)

\* the usize operations of lines 75-76 that overflow
alloc_overflows(bp, size, align) ==
    \/ Overflows(bp + align)
    \/ Overflows(align - 1)
    \/ Overflows(alloc_aligned_pos(bp, align) + size)

\* alloc, line 79: the space check
alloc_no_space(new_pos, pp) == new_pos > pp

\* alloc, line 88: NonNull::new(aligned_pos).ok_or(InvalidParam)
alloc_result(aligned_pos) ==
    IF aligned_pos = 0 THEN Err("InvalidParam") ELSE Ok(aligned_pos)

\* the round tally after an alloc that wrote byte_pos and alloc_count
rt_alloc(res, new_pos) ==
    LET base == IF alloc_count = 0 THEN RtIdle ELSE rt
    IN  IF res.kind = "Ok" /\ base.ok /\ base.d = 0
        THEN [n |-> base.n + 1, d |-> 0, ok |-> TRUE, pos |-> new_pos]
        ELSE RtBroken

\* ByteAllocator::alloc
alloc(size, align) ==
    LET aligned_pos == alloc_aligned_pos(byte_pos, align)
        new_pos == alloc_new_pos(byte_pos, size, align)
    IN
    /\ ~panicked
    /\ IF alloc_invalid(size)
       THEN /\ last' = Call("alloc", size, align, Err("InvalidParam"))
            /\ UNCHANGED <<fields, panicked, rt>>
       ELSE IF overflow_checks /\ alloc_overflows(byte_pos, size, align)
       THEN /\ panicked' = TRUE
            /\ last' = Call("alloc", size, align, Panic)
            /\ UNCHANGED <<fields, rt>>
       ELSE IF alloc_no_space(new_pos, page_pos)
       THEN /\ last' = Call("alloc", size, align, Err("NoMemory"))
            /\ UNCHANGED <<fields, panicked, rt>>
       ELSE /\ alloc_count < MaxAllocs
            /\ byte_pos' = new_pos
            /\ alloc_count' = alloc_count + 1
            /\ last' = Call("alloc", size, align, alloc_result(aligned_pos))
            /\ rt' = rt_alloc(alloc_result(aligned_pos), new_pos)
            /\ UNCHANGED <<start, end, page_pos, panicked>>
    /\ UNCHANGED <<overflow_checks, initialized>>
    /\ ex' = ex_next

\* variant of dealloc_count: the decrement made without the guard
dealloc_count_unguarded(c) == Wrap(c - 1)

\* dealloc, lines 94-96: the saturating decrement
dealloc_count(c) == IF c > 0 THEN c - 1 ELSE c

\* variant of dealloc_byte_pos: the reset made on every dealloc
dealloc_byte_pos_always(c, bp, s) == s

\* dealloc, lines 99-101: the bulk reset
dealloc_byte_pos(c, bp, s) == IF c = 0 THEN s ELSE bp

\* the round tally after a dealloc
rt_dealloc ==
    IF alloc_count = 0 THEN RtIdle
    ELSE IF rt.ok THEN [rt EXCEPT !.d = rt.d + 1]
    ELSE RtBroken

\* ByteAllocator::dealloc: the pointer and the layout are not used
dealloc(pos, size) ==
    /\ ~panicked
    /\ alloc_count' = dealloc_count(alloc_count)
    /\ byte_pos' = dealloc_byte_pos(dealloc_count(alloc_count), byte_pos, start)
    /\ last' = Call("dealloc", pos, size, Unit)
    /\ rt' = rt_dealloc
    /\ UNCHANGED <<start, end, page_pos, overflow_checks, panicked, initialized>>
    /\ ex' = ex_next

\* ByteAllocator::total_bytes
total_bytes == Wrap(end - start)

\* variant of used_bytes: the page area left out
used_bytes_no_pages == Wrap(byte_pos - start)

\* ByteAllocator::used_bytes
used_bytes ==
    LET bytes_used == Wrap(byte_pos - start)
        pages_used == Wrap(end - page_pos)
    IN  Wrap(bytes_used + pages_used)

\* ByteAllocator::available_bytes
available_bytes == Wrap(page_pos - byte_pos)

\* alloc_pages, lines 127-129: the zero-count check
alloc_pages_invalid(num_pages) == num_pages = 0

\* alloc_pages, line 132: num_pages * page_size
alloc_pages_bytes_size(num_pages) == Wrap(num_pages * PAGE_SIZE)

\* alloc_pages, line 135: page_size << align_pow2
alloc_pages_align(align_pow2) == Shl(PAGE_SIZE, align_pow2)

\* variant of alloc_pages_aligned_pos: the address not rounded down
alloc_pages_aligned_pos_unmasked(pp, bytes_size, align) ==
    Wrap(pp - bytes_size)

\* alloc_pages, line 138: (self.page_pos - bytes_size) & !(align - 1)
alloc_pages_aligned_pos(pp, bytes_size, align) ==
    BitAnd(Wrap(pp - bytes_size), BitNot(Wrap(align - 1)))

\* the usize operations of lines 132-138 that panic under overflow checks
alloc_pages_overflows(pp, num_pages, align_pow2) ==
    \/ Overflows(num_pages * PAGE_SIZE)
    \/ align_pow2 >= WordBits
    \/ Overflows(pp - alloc_pages_bytes_size(num_pages))
    \/ Overflows(alloc_pages_align(align_pow2) - 1)

\* alloc_pages, line 141: the space check
alloc_pages_no_space(aligned_pos, bp) == aligned_pos < bp

\* PageAllocator::alloc_pages
alloc_pages(num_pages, align_pow2) ==
    LET bytes_size == alloc_pages_bytes_size(num_pages)
        align == alloc_pages_align(align_pow2)
        aligned_pos == alloc_pages_aligned_pos(page_pos, bytes_size, align)
    IN
    /\ ~panicked
    /\ IF alloc_pages_invalid(num_pages)
       THEN /\ last' = Call("alloc_pages", num_pages, align_pow2,
                            Err("InvalidParam"))
            /\ UNCHANGED <<fields, panicked>>
       ELSE IF overflow_checks
               /\ alloc_pages_overflows(page_pos, num_pages, align_pow2)
       THEN /\ panicked' = TRUE
            /\ last' = Call("alloc_pages", num_pages, align_pow2, Panic)
            /\ UNCHANGED fields
       ELSE IF alloc_pages_no_space(aligned_pos, byte_pos)
       THEN /\ last' = Call("alloc_pages", num_pages, align_pow2,
                            Err("NoMemory"))
            /\ UNCHANGED <<fields, panicked>>
       ELSE /\ page_pos' = aligned_pos
            /\ last' = Call("alloc_pages", num_pages, align_pow2,
                            Ok(aligned_pos))
            /\ UNCHANGED <<start, end, byte_pos, alloc_count, panicked>>
    /\ UNCHANGED <<overflow_checks, initialized, rt>>
    /\ ex' = ex_next

\* PageAllocator::dealloc_pages
dealloc_pages(pos, num_pages) ==
    /\ ~panicked
    /\ last' = Call("dealloc_pages", pos, num_pages, Unit)
    /\ UNCHANGED <<fields, overflow_checks, panicked, initialized, rt>>
    /\ ex' = ex_next

\* PageAllocator::total_pages
total_pages == total_bytes \div PAGE_SIZE

\* PageAllocator::used_pages
used_pages == Wrap(end - page_pos) \div PAGE_SIZE

\* PageAllocator::available_pages
available_pages == Wrap(page_pos - byte_pos) \div PAGE_SIZE

\* arguments of the calls whose arguments the code ignores
IgnoredArgs == { <<6 * PAGE_SIZE, 2048>>, <<0, 1>> }

\* any caller: deallocs are made whatever is held
Next ==
    \/ \E r \in Regions : init(r[1], r[2]) /\ UNCHANGED held
    \/ \E r \in IgnoredArgs : add_memory(r[1], r[2]) /\ UNCHANGED held
    \/ \E l \in Layouts : alloc(l[1], l[2]) /\ UNCHANGED held
    \/ \E r \in IgnoredArgs : dealloc(r[1], r[2]) /\ UNCHANGED held
    \/ \E q \in PageReqs : alloc_pages(q[1], q[2]) /\ UNCHANGED held
    \/ \E r \in IgnoredArgs : dealloc_pages(r[1], r[2]) /\ UNCHANGED held

Spec == Init /\ [][Next]_vars

\* ---------------------------------------------------------------------
\* A caller that keeps what it was given: it records every block alloc
\* returned and every page run alloc_pages returned, and deallocs only
\* blocks it holds, each once.  It goes on using the allocator as long as
\* the ranges it has on record are sound; only init starts it afresh.

\* inputs of the keeping caller
HeldRegions == {<<0, 4 * PAGE_SIZE>>, <<HighStart, 3 * PAGE_SIZE>>}
HeldLayouts == {<<0, 1>>, <<2048, 2048>>, <<BigSize, 8>>}
HeldPageReqs == {<<0, 0>>, <<1, 0>>, <<3, 0>>, <<7, 0>>}

\* [a, a + n) and [b, b + m) share no address
Disjoint(a, n, b, m) == a + n <= b \/ b + m <= a

\* [a, a + n) lies in the region given to init
InRegion(a, n) == start <= a /\ a + n <= end

\* every range on record is inside the region and apart from the others
HeldSound ==
    /\ \A i \in 1..Len(blocks) : InRegion(blocks[i][1], blocks[i][2])
    /\ \A r \in runs : InRegion(r[1], r[2])
    /\ \A i, j \in 1..Len(blocks) :
           i < j => Disjoint(blocks[i][1], blocks[i][2],
                             blocks[j][1], blocks[j][2])
    /\ \A r, q \in runs : r # q => Disjoint(r[1], r[2], q[1], q[2])
    /\ \A i \in 1..Len(blocks) : \A r \in runs :
           Disjoint(blocks[i][1], blocks[i][2], r[1], r[2])

Without(seq, i) == [k \in 1..(Len(seq) - 1) |->
                       IF k < i THEN seq[k] ELSE seq[k + 1]]

held_init(s, size) ==
    /\ init(s, size)
    /\ blocks' = <<>>
    /\ runs' = {}

held_add_memory(s, size) ==
    /\ HeldSound
    /\ add_memory(s, size)
    /\ UNCHANGED held

held_alloc(size, align) ==
    /\ HeldSound
    /\ alloc(size, align)
    /\ blocks' = IF last'.res.kind = "Ok"
                 THEN Append(blocks, <<last'.res.val, size>>)
                 ELSE blocks
    /\ UNCHANGED runs

\* the caller gives back the i-th block it holds
held_dealloc(i) ==
    /\ HeldSound
    /\ dealloc(blocks[i][1], blocks[i][2])
    /\ blocks' = Without(blocks, i)
    /\ UNCHANGED runs

held_alloc_pages(num_pages, align_pow2) ==
    /\ HeldSound
    /\ alloc_pages(num_pages, align_pow2)
    /\ runs' = IF last'.res.kind = "Ok"
               THEN runs \cup {<<last'.res.val, num_pages * PAGE_SIZE>>}
               ELSE runs
    /\ UNCHANGED blocks

held_dealloc_pages(pos, num_pages) ==
    /\ HeldSound
    /\ dealloc_pages(pos, num_pages)
    /\ UNCHANGED held

NextHeld ==
    \/ \E r \in HeldRegions : held_init(r[1], r[2])
    \/ \E r \in IgnoredArgs : held_add_memory(r[1], r[2])
    \/ \E l \in HeldLayouts : held_alloc(l[1], l[2])
    \/ \E i \in 1..Len(blocks) : held_dealloc(i)
    \/ \E q \in HeldPageReqs : held_alloc_pages(q[1], q[2])
    \/ \E r \in runs : held_dealloc_pages(r[1], r[2] \div PAGE_SIZE)

SpecHeld == Init /\ [][NextHeld]_vars

\* ------------------------------------------------------------- the claims
\* the fields before the last call
Pre == last.pre

\* the last call left the five fields as they were
FieldsKept == Fields = Pre

\* the last call was not init (nor the construction)
Operated == last.op \in {"alloc", "dealloc", "alloc_pages",
                         "dealloc_pages", "add_memory"}

\* round_up and round_down over the integers
RoundUp(x, a) == ((x + a - 1) \div a) * a
RoundDown(x, a) == (x \div a) * a

\* C1: after init, in every reachable state,
\* start <= byte_pos <= page_pos <= end.
C1_CursorsOrdered ==
    initialized =>
        /\ start <= byte_pos
        /\ byte_pos <= page_pos
        /\ page_pos <= end

\* C2: on an initialized allocator, an alloc or alloc_pages call that
\* returns InvalidParam or NoMemory leaves the five fields as they were.
C2_ErrorKeepsFields ==
    ( /\ initialized
      /\ last.op \in {"alloc", "alloc_pages"}
      /\ last.res.kind \in {"InvalidParam", "NoMemory"} )
    => FieldsKept

\* C3: in a round of N allocs that returned Ok (begun with alloc_count = 0)
\* followed by deallocs, byte_pos is start after the Nth dealloc and is
\* still what the last alloc left after each of the first N-1 deallocs.
C3_RoundTrip ==
    rt.ok =>
        /\ (rt.n >= 1 /\ rt.d = rt.n) => byte_pos = start
        /\ (0 < rt.d /\ rt.d < rt.n) => byte_pos = rt.pos

\* a round of two allocs and two deallocs, with a page run taken meanwhile
C3_Witness ==
    /\ rt.ok /\ rt.n = 2 /\ rt.d = 2
    /\ last.op = "dealloc"
    /\ Pre.byte_pos > start
    /\ byte_pos = start
    /\ page_pos < end

\* C4: after init, the usize sum used_bytes() + available_bytes() equals
\* total_bytes() (and does not overflow where overflow is checked), which
\* equals end - start; no call other than init changes total_bytes().
C4_BytesAccounting ==
    initialized =>
        /\ Wrap(used_bytes + available_bytes) = total_bytes
        /\ overflow_checks => ~Overflows(used_bytes + available_bytes)
        /\ total_bytes = end - start
        /\ Operated => total_bytes = Wrap(Pre.end - Pre.start)

\* bytes and pages are both in use
C4_Witness ==
    /\ initialized
    /\ Operated
    /\ byte_pos > start
    /\ page_pos < end
    /\ used_bytes = (byte_pos - start) + (end - page_pos)
    /\ used_bytes + available_bytes = total_bytes

\* C5: after init, an alloc_pages call that returns Ok leaves page_pos
\* strictly lower, and no alloc, dealloc, alloc_pages, dealloc_pages or
\* add_memory call raises page_pos.
C5_PagePosMonotonic ==
    (initialized /\ Operated) =>
        /\ (last.op = "alloc_pages" /\ last.res.kind = "Ok")
               => page_pos < Pre.page_pos
        /\ page_pos <= Pre.page_pos

\* C6: after init, when byte_pos = page_pos, an alloc of at least one byte
\* and an alloc_pages of at least one page return NoMemory and leave the
\* five fields as they were.
C6_ExhaustedFails ==
    ( /\ initialized
      /\ last.op \in {"alloc", "alloc_pages"}
      /\ last.a > 0
      /\ Pre.byte_pos = Pre.page_pos )
    => (last.res.kind = "NoMemory" /\ FieldsKept)

\* C7: alloc(size > 0, align) with round_up(byte_pos, align) + size <=
\* page_pos returns Ok(round_up(byte_pos, align)), sets byte_pos to that
\* plus size, adds 1 to alloc_count and keeps start, end, page_pos;
\* otherwise it returns NoMemory.
C7_Alloc ==
    (last.op = "alloc" /\ last.a > 0) =>
        LET size == last.a
            align == last.b
            aligned_pos == RoundUp(Pre.byte_pos, align)
        IN  IF aligned_pos + size <= Pre.page_pos
            THEN /\ last.res = Ok(aligned_pos)
                 /\ aligned_pos % align = 0
                 /\ aligned_pos >= Pre.byte_pos
                 /\ byte_pos = aligned_pos + size
                 /\ alloc_count = Pre.alloc_count + 1
                 /\ start = Pre.start
                 /\ end = Pre.end
                 /\ page_pos = Pre.page_pos
            ELSE last.res.kind = "NoMemory"

\* what C8 says of an alloc_pages(num_pages, align_pow2) call
C8_Says(num_pages, align_pow2) ==
    LET align == PAGE_SIZE * Pow2(align_pow2)
        bytes_size == num_pages * PAGE_SIZE
        aligned_pos == RoundDown(Pre.page_pos - bytes_size, align)
    IN  aligned_pos >= Pre.byte_pos =>
            /\ last.res = Ok(aligned_pos)
            /\ page_pos = aligned_pos
            /\ start = Pre.start
            /\ end = Pre.end
            /\ byte_pos = Pre.byte_pos
            /\ alloc_count = Pre.alloc_count
            /\ aligned_pos % align = 0
            /\ aligned_pos + bytes_size <= Pre.page_pos

\* C8 as stated: for num_pages > 0 and every align_pow2, with align =
\* PAGE_SIZE << align_pow2 and aligned_pos = round_down(page_pos -
\* num_pages * PAGE_SIZE, align), if aligned_pos >= byte_pos then
\* alloc_pages returns Ok(aligned_pos), sets page_pos to it and keeps the
\* other fields; the address is a multiple of align and the run ends at or
\* below the old page_pos.
C8_AllocPages_Original ==
    (last.op = "alloc_pages" /\ last.a > 0) => C8_Says(last.a, last.b)

\* C8 amended: the same, for align_pow2 such that PAGE_SIZE << align_pow2
\* is a usize (no bit of PAGE_SIZE is shifted out of the word).
C8_AllocPages ==
    ( /\ last.op = "alloc_pages"
      /\ last.a > 0
      /\ PAGE_SIZE * Pow2(last.b) <= MaxWord )
    => C8_Says(last.a, last.b)

\* one page taken with two-page alignment, the address rounded down
C8_Witness ==
    /\ initialized
    /\ last.op = "alloc_pages"
    /\ last.a = 1 /\ last.b = 1
    /\ last.res.kind = "Ok"
    /\ page_pos = last.res.val
    /\ page_pos < Pre.page_pos - PAGE_SIZE
    /\ page_pos >= byte_pos
    /\ byte_pos > start

\* C9: a dealloc made when alloc_count is 0 returns normally, leaves
\* alloc_count 0 and leaves start, end, byte_pos, page_pos as they were.
C9_SurplusDealloc ==
    (last.op = "dealloc" /\ Pre.alloc_count = 0) =>
        /\ last.res = Unit
        /\ alloc_count = 0
        /\ FieldsKept

\* a surplus dealloc on an initialized allocator that has handed out pages
C9_Witness ==
    /\ initialized
    /\ last.op = "dealloc"
    /\ Pre.alloc_count = 0
    /\ alloc_count = 0
    /\ page_pos < end

\* C10: init(start, size), whatever the fields were, sets start to start,
\* end and page_pos to start + size, byte_pos to start, alloc_count to 0.
C10_Init ==
    last.op = "init" =>
        /\ start = last.a
        /\ end = last.a + last.b
        /\ byte_pos = last.a
        /\ page_pos = last.a + last.b
        /\ alloc_count = 0

\* init called again over another region while byte blocks and pages of
\* the old one are outstanding
C10_Witness ==
    /\ last.op = "init"
    /\ Pre.alloc_count > 0
    /\ Pre.page_pos < Pre.end
    /\ Pre.start # start
    /\ byte_pos = start
    /\ page_pos = end

\* used_pages() before the last call
PreUsedPages == Wrap(Pre.end - Pre.page_pos) \div PAGE_SIZE

\* C11: add_memory returns NoMemory whatever its arguments and the state,
\* and leaves the five fields as they were; no call other than init changes
\* start or end.
C11_AddMemory ==
    /\ last.op = "add_memory" =>
           (last.res = Err("NoMemory") /\ FieldsKept)
    /\ (initialized /\ Operated) => (start = Pre.start /\ end = Pre.end)

\* add_memory with the region that follows end, after bytes and pages
\* were handed out
C11_Witness ==
    /\ initialized
    /\ last.op = "add_memory"
    /\ last.a = end
    /\ last.res.kind = "NoMemory"
    /\ byte_pos > start
    /\ page_pos < end

\* C12: dealloc_pages leaves the five fields as they were whatever its
\* arguments; after init no call other than init lowers used_pages() or
\* raises page_pos (gives page space back to the gap).
C12_PagesNeverReleased ==
    /\ last.op = "dealloc_pages" => (last.res = Unit /\ FieldsKept)
    /\ (initialized /\ Operated) =>
           /\ used_pages >= PreUsedPages
           /\ page_pos <= Pre.page_pos

\* C13: alloc with size 0 and alloc_pages with num_pages 0 return
\* InvalidParam in every state, an exhausted one included, and leave the
\* five fields as they were.
C13_ZeroRejected ==
    (last.op \in {"alloc", "alloc_pages"} /\ last.a = 0) =>
        (last.res = Err("InvalidParam") /\ FieldsKept)

\* a zero request made when the gap is closed
C13_Witness ==
    /\ initialized
    /\ last.op \in {"alloc", "alloc_pages"}
    /\ last.a = 0
    /\ last.res.kind = "InvalidParam"
    /\ Pre.byte_pos = Pre.page_pos
    /\ Pre.byte_pos > start
    /\ Pre.page_pos < end

\* over the integers: the run of num_pages pages aligned to
\* PAGE_SIZE * 2^align_pow2 fits in the gap the last call found
PageRunFits(num_pages, align_pow2) ==
    RoundDown(Pre.page_pos - num_pages * PAGE_SIZE,
              PAGE_SIZE * Pow2(align_pow2)) >= Pre.byte_pos

\* C15: after init, alloc_pages(num_pages >= 1, align_pow2) whose page run
\* does not fit in the gap returns NoMemory (it neither panics nor returns
\* an address) and leaves page_pos and the other fields as they were.
\* Stated for the align_pow2 that keep PAGE_SIZE << align_pow2 in the word.
C15_NoFitNoMemory ==
    ( /\ initialized
      /\ last.op = "alloc_pages"
      /\ last.a >= 1
      /\ PAGE_SIZE * Pow2(last.b) <= MaxWord
      /\ ~PageRunFits(last.a, last.b) )
    => (last.res.kind = "NoMemory" /\ FieldsKept)

\* C16: after init, an alloc that returns Ok raises byte_pos; a dealloc
\* that leaves alloc_count 0 sets byte_pos to start; a dealloc that leaves
\* alloc_count > 0, every alloc_pages, dealloc_pages and add_memory, and
\* every alloc that does not return Ok leave byte_pos as it was.
C16_BytePosChanges ==
    (initialized /\ Operated) =>
        /\ (last.op = "alloc" /\ last.res.kind = "Ok")
               => byte_pos > Pre.byte_pos
        /\ (last.op = "dealloc" /\ alloc_count = 0) => byte_pos = start
        /\ ( \/ last.op = "dealloc" /\ alloc_count > 0
             \/ last.op \in {"alloc_pages", "dealloc_pages", "add_memory"}
             \/ last.op = "alloc" /\ last.res.kind # "Ok" )
               => byte_pos = Pre.byte_pos

\* C18: after init, alloc_count = 0 exactly when byte_pos = start.
C18_CountZeroIffEmpty ==
    initialized => (alloc_count = 0 <=> byte_pos = start)

\* C20: before init, no alloc and no alloc_pages call returns Ok and the
\* five fields are 0.
C20_UninitializedInert ==
    ~initialized =>
        /\ last.res.kind # "Ok"
        /\ start = 0
        /\ end = 0
        /\ byte_pos = 0
        /\ page_pos = 0
        /\ alloc_count = 0

\* C17: when an exhausted state with byte allocations counted and page_pos
\* above start has been drained by deallocs (alloc_count back to 0), the
\* gap is [start, page_pos): byte_pos = start and available_bytes() =
\* page_pos - start; the alloc that follows, with size > 0 and
\* round_up(start, align) + size <= page_pos, returns Ok; and page_pos is
\* not above what it was at the exhaustion.
C17_RecoveryAfterDrain ==
    /\ ex.phase = "drained" =>
           /\ byte_pos = start
           /\ available_bytes = page_pos - start
           /\ page_pos <= ex.pp
    /\ ( /\ ex.phase = "retried"
         /\ last.a > 0
         /\ RoundUp(Pre.start, last.b) + last.a <= Pre.page_pos )
       => (last.res.kind = "Ok" /\ page_pos <= ex.pp)
\* C14: for a caller that deallocs only blocks it holds, each once,
\* alloc_count is the number of byte blocks outstanding: the allocs that
\* returned Ok since the last init minus the deallocs since then
C14_CountIsOutstanding ==
    initialized => alloc_count = Len(blocks)

\* C19: for such a caller the ranges handed out never overlap: outstanding
\* byte blocks are pairwise disjoint, page runs are disjoint from each
\* other and from every outstanding byte block, and all lie in [start, end)
C19_HandedOutDisjoint ==
    initialized => HeldSound

====
